---------------------------- MODULE Spec2Model ----------------------------
(***************************************************************************)
(* Model of NbtHandling.py: the converter between the player-readable NBT  *)
(* text and the typed Mod-API tree.                                         *)
(*                                                                         *)
(* Texts are sequences of one-character strings.  Positions are Python's   *)
(* 0-based indices.  A number is a record: an int is [vk |-> "int", m],    *)
(* a float is the exact decimal m * 10^e with m not divisible by 10.       *)
(***************************************************************************)
EXTENDS Integers, Sequences, FiniteSets, TLC

VARIABLES
    pc,           \* the next call of the run
    value_part,   \* argument of _parse_simple_value
    simple,       \* its return (value, type id)
    nbt_string,   \* argument of _parse_value
    value,        \* its return or raise
    key,          \* a bare top-level key
    value_text,   \* the text of a top-level value
    named,        \* parse_readable_nbt(key:value_text)
    wrapped,      \* parse_readable_nbt({key:value_text})
    api,          \* readable_to_api(named)
    api_nbt,      \* argument of api_to_readable
    readable,     \* its return or raise
    reparsed      \* parse_readable_nbt(readable)

vars == <<pc, value_part, simple, nbt_string, value, key, value_text, named,
          wrapped, api, api_nbt, readable, reparsed>>

-----------------------------------------------------------------------------
(* Bounds *)

\* longest literal handed to _parse_simple_value
MaxLen == 4

\* most tokens after the opening bracket of an array text
MaxTokens == 5

\* most tokens of a top-level value text
MaxValueTokens == 4

\* nesting depth of the trees handed to api_to_readable
MaxDepth == 2

-----------------------------------------------------------------------------
(* Characters and Python string primitives *)

Whitespace == {" ", "\n", "\t", "\r"}

Digits == {"0", "1", "2", "3", "4", "5", "6", "7", "8", "9"}

UpperCase == <<"A", "B", "C", "D", "E", "F", "G", "H", "I", "J", "K", "L", "M",
               "N", "O", "P", "Q", "R", "S", "T", "U", "V", "W", "X", "Y", "Z">>

LowerCase == <<"a", "b", "c", "d", "e", "f", "g", "h", "i", "j", "k", "l", "m",
               "n", "o", "p", "q", "r", "s", "t", "u", "v", "w", "x", "y", "z">>

\* str.lower() on one character
Lower(c) ==
    IF \E k \in 1..26 : UpperCase[k] = c
    THEN LowerCase[CHOOSE k \in 1..26 : UpperCase[k] = c]
    ELSE c

LowerText(s) == [k \in 1..Len(s) |-> Lower(s[k])]

\* s[i] with Python's index rule (a negative index counts from the end)
At(s, i) == IF i < 0 THEN s[Len(s) + i + 1] ELSE s[i + 1]

\* s[a:b] for 0 <= a
Slice(s, a, b) ==
    LET hi == IF b > Len(s) THEN Len(s) ELSE b
    IN  IF a >= hi THEN <<>> ELSE [k \in 1..(hi - a) |-> s[a + k]]

Contains(s, c) == \E k \in 1..Len(s) : s[k] = c

RECURSIVE LStrip(_)
LStrip(s) ==
    IF s # <<>> /\ Head(s) \in Whitespace THEN LStrip(Tail(s)) ELSE s

RECURSIVE RStrip(_)
RStrip(s) ==
    IF s # <<>> /\ s[Len(s)] \in Whitespace
    THEN RStrip(SubSeq(s, 1, Len(s) - 1))
    ELSE s

\* str.strip()
Strip(s) == RStrip(LStrip(s))

StartsWith(s, p) == Len(s) >= Len(p) /\ SubSeq(s, 1, Len(p)) = p

\* str.replace(old, new): leftmost non-overlapping occurrences
RECURSIVE Replace(_, _, _)
Replace(s, old, new) ==
    IF s = <<>> THEN <<>>
    ELSE IF StartsWith(s, old)
         THEN new \o Replace(SubSeq(s, Len(old) + 1, Len(s)), old, new)
         ELSE <<Head(s)>> \o Replace(Tail(s), old, new)

-----------------------------------------------------------------------------
(* Numbers: int() and float() on a text *)

NoneVal == [vk |-> "none", m |-> 0, e |-> 0, s |-> <<>>]
IntVal(n) == [vk |-> "int", m |-> n, e |-> 0, s |-> <<>>]
StrVal(t) == [vk |-> "str", m |-> 0, e |-> 0, s |-> t]
InfVal(sign) == [vk |-> "float", m |-> sign, e |-> 0, s |-> <<"i", "n", "f">>]
NanVal == [vk |-> "float", m |-> 0, e |-> 0, s |-> <<"n", "a", "n">>]

DigitVal(c) ==
    CASE c = "0" -> 0 [] c = "1" -> 1 [] c = "2" -> 2 [] c = "3" -> 3
      [] c = "4" -> 4 [] c = "5" -> 5 [] c = "6" -> 6 [] c = "7" -> 7
      [] c = "8" -> 8 [] c = "9" -> 9

\* decimal digits, with single underscores allowed between digits
AllDigits(s) ==
    /\ s # <<>>
    /\ \A k \in 1..Len(s) : s[k] \in Digits \cup {"_"}
    /\ s[1] # "_" /\ s[Len(s)] # "_"
    /\ \A k \in 1..(Len(s) - 1) : ~(s[k] = "_" /\ s[k + 1] = "_")

RECURSIVE DigitsVal(_)
DigitsVal(s) ==
    IF s = <<>> THEN 0
    ELSE IF s[Len(s)] = "_" THEN DigitsVal(SubSeq(s, 1, Len(s) - 1))
    ELSE 10 * DigitsVal(SubSeq(s, 1, Len(s) - 1)) + DigitVal(s[Len(s)])

Signed(s) == s # <<>> /\ Head(s) \in {"+", "-"}
SignOf(s) == IF s # <<>> /\ Head(s) = "-" THEN -1 ELSE 1
Unsigned(s) == IF Signed(s) THEN Tail(s) ELSE s

\* int(text): surrounding whitespace, an optional sign, decimal digits
PyInt(text) ==
    LET body == Unsigned(Strip(text))
    IN  IF AllDigits(body)
        THEN [ok |-> TRUE, val |-> IntVal(SignOf(Strip(text)) * DigitsVal(body))]
        ELSE [ok |-> FALSE, val |-> NoneVal]

RECURSIVE NumDigits(_)
NumDigits(n) == IF n < 10 THEN 1 ELSE 1 + NumDigits(n \div 10)

\* the decimal m * 10^e without trailing zeros in m
RECURSIVE Normalize(_, _)
Normalize(m, e) ==
    IF m = 0 THEN <<0, 0>>
    ELSE IF m % 10 = 0 THEN Normalize(m \div 10, e + 1)
    ELSE <<m, e>>

\* the double nearest to sign * m * 10^e: beyond the largest double it is
\* inf, below the smallest subnormal it is 0.0 (the decades 308 and -324
\* themselves, where the result depends on the leading digits, need a
\* 3-digit exponent in the digits 3, 0, 8 or 3, 2, 4)
FloatVal(sign, m, e) ==
    LET n == Normalize(m, e)
        adj == n[2] + NumDigits(n[1]) - 1
    IN  IF n[1] = 0 THEN [vk |-> "float", m |-> 0, e |-> 0, s |-> <<>>]
        ELSE IF adj > 308 THEN InfVal(sign)
        ELSE IF adj < -324 THEN [vk |-> "float", m |-> 0, e |-> 0, s |-> <<>>]
        ELSE [vk |-> "float", m |-> sign * n[1], e |-> n[2], s |-> <<>>]

\* index (1-based) of the first exponent marker of s, 0 if none
ExpIndex(s) ==
    IF \E k \in 1..Len(s) : s[k] \in {"e", "E"}
    THEN CHOOSE k \in 1..Len(s) :
            s[k] \in {"e", "E"} /\ \A j \in 1..(k - 1) : s[j] \notin {"e", "E"}
    ELSE 0

DotIndex(s) ==
    IF Contains(s, ".") THEN CHOOSE k \in 1..Len(s) : s[k] = "." /\ \A j \in 1..(k - 1) : s[j] # "."
    ELSE 0

AllDigitsOrEmpty(s) == s = <<>> \/ AllDigits(s)

\* float() on the parts of a literal: integer digits, fraction digits, and
\* the exponent text when there is an exponent marker
FloatFromParts(sign, ipart, fpart, expo, has_exp) ==
    IF /\ AllDigitsOrEmpty(ipart)
       /\ AllDigitsOrEmpty(fpart)
       /\ Len(ipart) + Len(fpart) > 0
       /\ (has_exp => AllDigits(Unsigned(expo)))
    THEN [ok |-> TRUE,
          val |-> FloatVal(sign, DigitsVal(ipart \o fpart),
                           (IF has_exp THEN SignOf(expo) * DigitsVal(Unsigned(expo)) ELSE 0)
                              - Len(SelectSeq(fpart, LAMBDA c : c # "_")))]
    ELSE [ok |-> FALSE, val |-> NoneVal]

\* the mantissa split at its point
FloatFromMantissa(sign, mant, expo, has_exp) ==
    IF DotIndex(mant) = 0
    THEN FloatFromParts(sign, mant, <<>>, expo, has_exp)
    ELSE FloatFromParts(sign, SubSeq(mant, 1, DotIndex(mant) - 1),
                        SubSeq(mant, DotIndex(mant) + 1, Len(mant)), expo, has_exp)

\* the unsigned text: inf, infinity, nan, or a mantissa and an optional exponent
FloatFromBody(sign, body) ==
    IF LowerText(body) \in {<<"i", "n", "f">>,
                            <<"i", "n", "f", "i", "n", "i", "t", "y">>}
    THEN [ok |-> TRUE, val |-> InfVal(sign)]
    ELSE IF LowerText(body) = <<"n", "a", "n">>
    THEN [ok |-> TRUE, val |-> NanVal]
    ELSE IF ExpIndex(body) = 0
    THEN FloatFromMantissa(sign, body, <<>>, FALSE)
    ELSE FloatFromMantissa(sign, SubSeq(body, 1, ExpIndex(body) - 1),
                           SubSeq(body, ExpIndex(body) + 1, Len(body)), TRUE)

\* float(text): whitespace, sign, digits with an optional point, an optional
\* exponent; or inf / infinity / nan
PyFloat(text) == FloatFromBody(SignOf(Strip(text)), Unsigned(Strip(text)))

-----------------------------------------------------------------------------
(* 1. Type tables *)

TAG_Byte == 1
TAG_Short == 2
TAG_Int == 3
TAG_Long == 4
TAG_Float == 5
TAG_Double == 6
TAG_Byte_Array == 7
TAG_String == 8
TAG_List == 9
TAG_Compound == 10
TAG_Int_Array == 11
TAG_Long_Array == 12

SuffixChars == {"b", "B", "s", "S", "i", "I", "l", "L", "f", "F", "d", "D"}

TYPE_SUFFIX_MAP(c) ==
    CASE c \in {"b", "B"} -> TAG_Byte
      [] c \in {"s", "S"} -> TAG_Short
      [] c \in {"i", "I"} -> TAG_Int
      [] c \in {"l", "L"} -> TAG_Long
      [] c \in {"f", "F"} -> TAG_Float
      [] c \in {"d", "D"} -> TAG_Double

-----------------------------------------------------------------------------
(* 2. _parse_simple_value *)

\* SuffixedNumber with the int() branch lost: every suffixed literal goes
\* through float()
SuffixedNumberAsFloat(val_str) == PyFloat(val_str)

\* rule 1's try block: float() when the text has a point or an exponent
\* marker, int() otherwise
SuffixedNumber(val_str) ==
    IF Contains(val_str, ".") \/ Contains(LowerText(val_str), "e")
    THEN PyFloat(val_str)
    ELSE PyInt(val_str)

\* rules 2 and 3: int(), then float(), then the text itself
Unsuffixed(vp, as_int, as_float) ==
    IF as_int.ok THEN [val |-> as_int.val, type |-> TAG_Int]
    ELSE IF as_float.ok THEN [val |-> as_float.val, type |-> TAG_Float]
    ELSE [val |-> StrVal(vp), type |-> TAG_String]

\* rule 1 on the lower-cased last character and the parse of the rest
Suffixed(vp, suffix, number) ==
    IF Len(vp) > 1 /\ suffix \in SuffixChars /\ number.ok
    THEN [val |-> number.val, type |-> TYPE_SUFFIX_MAP(suffix)]
    ELSE Unsuffixed(vp, PyInt(vp), PyFloat(vp))

_parse_simple_value(vp) ==
    IF vp = <<>> THEN [val |-> NoneVal, type |-> 0]
    ELSE Suffixed(vp, Lower(vp[Len(vp)]), SuffixedNumber(SubSeq(vp, 1, Len(vp) - 1)))

-----------------------------------------------------------------------------
(* Trees.  Every node has the same fields: a scalar wrapper                *)
(* {"__type__": t, "__value__": v} uses type and val, a compound (a plain  *)
(* dict) uses keys and items in insertion order, a list (a plain Python    *)
(* list) uses items, a typed-array wrapper uses type and elems.            *)

Scalar(t, v) == [type |-> t, val |-> v, keys |-> <<>>, items |-> <<>>, elems |-> <<>>]
Compound(ks, its) ==
    [type |-> TAG_Compound, val |-> NoneVal, keys |-> ks, items |-> its, elems |-> <<>>]
List(its) ==
    [type |-> TAG_List, val |-> NoneVal, keys |-> <<>>, items |-> its, elems |-> <<>>]
Array(t, es) == [type |-> t, val |-> NoneVal, keys |-> <<>>, items |-> <<>>, elems |-> es]

ArrayTypes == {TAG_Byte_Array, TAG_Int_Array, TAG_Long_Array}

\* result[key] = value on a dict kept in insertion order
DictSet(node, k, v) ==
    IF \E p \in 1..Len(node.keys) : node.keys[p] = k
    THEN LET p == CHOOSE q \in 1..Len(node.keys) : node.keys[q] = k
         IN  [node EXCEPT !.items[p] = v]
    ELSE [node EXCEPT !.keys = Append(@, k), !.items = Append(@, v)]

\* a return (node, next index), or a raised ValueError with the index its
\* message carries (-1 when the message has none)
Ok(node, next) == [ok |-> TRUE, node |-> node, next |-> next, err |-> "", pos |-> -1]
Raise(kind, p) ==
    [ok |-> FALSE, node |-> Compound(<<>>, <<>>), next |-> -1, err |-> kind, pos |-> p]

-----------------------------------------------------------------------------
(* 2. _skip_whitespace *)

RECURSIVE _skip_whitespace(_, _)
_skip_whitespace(s, i) ==
    IF i < Len(s) /\ At(s, i) \in Whitespace THEN _skip_whitespace(s, i + 1) ELSE i

-----------------------------------------------------------------------------
(* 3. Parsers *)

\* the escape targets of the quoted-string branch
EscapedChar(c) ==
    CASE c = "n" -> "\n" [] c = "t" -> "\t" [] c = "r" -> "\r" [] OTHER -> c

\* the loop of the single-quote branch of _parse_value
RECURSIVE QuotedLoop(_, _, _, _)
QuotedLoop(s, i, end_index, value_chars) ==
    IF end_index >= Len(s) THEN Raise("unclosed quote", i)
    ELSE LET current_char == At(s, end_index)
         IN  IF current_char = "\\"
             THEN IF end_index + 1 < Len(s)
                  THEN QuotedLoop(s, i, end_index + 2,
                                  Append(value_chars, EscapedChar(At(s, end_index + 1))))
                  ELSE QuotedLoop(s, i, end_index + 1, Append(value_chars, current_char))
             ELSE IF current_char = "'"
             THEN Ok(Scalar(TAG_String, StrVal(value_chars)), end_index + 1)
             ELSE QuotedLoop(s, i, end_index + 1, Append(value_chars, current_char))

\* the scan of the unquoted branch of _parse_value
RECURSIVE UnquotedEnd(_, _)
UnquotedEnd(s, end_idx) ==
    IF end_idx >= Len(s) THEN end_idx
    ELSE LET c == At(s, end_idx)
         IN  IF c \in {",", "}", "]"} THEN end_idx
             ELSE IF c = ":" /\ At(s, end_idx - 1) # "\\" THEN end_idx
             ELSE UnquotedEnd(s, end_idx + 1)

\* the key scan of _parse_compound
RECURSIVE KeyEnd(_, _, _)
KeyEnd(s, key_end, escaped) ==
    IF key_end >= Len(s) THEN key_end
    ELSE LET c == At(s, key_end)
         IN  IF escaped THEN KeyEnd(s, key_end + 1, FALSE)
             ELSE IF c = "\\" THEN KeyEnd(s, key_end + 1, TRUE)
             ELSE IF c = ":" THEN key_end
             ELSE KeyEnd(s, key_end + 1, FALSE)

\* the chain of replace() calls that restores a key
UnescapeKey(k) ==
    Replace(Replace(Replace(Replace(Replace(Replace(Replace(Replace(k,
        <<"\\", ":">>, <<":">>),
        <<"\\", "{">>, <<"{">>),
        <<"\\", "}">>, <<"}">>),
        <<"\\", "[">>, <<"[">>),
        <<"\\", "]">>, <<"]">>),
        <<"\\", "'">>, <<"'">>),
        <<"\\", "\"">>, <<"\"">>),
        <<"\\", "\\">>, <<"\\">>)

\* the element scan of _parse_array
RECURSIVE ElemEnd(_, _)
ElemEnd(s, end_idx) ==
    IF end_idx < Len(s) /\ At(s, end_idx) \notin {",", "]"}
    THEN ElemEnd(s, end_idx + 1)
    ELSE end_idx

ArrayPrefixType(prefix) ==
    CASE prefix = <<"B", ";">> -> TAG_Byte_Array
      [] prefix = <<"I", ";">> -> TAG_Int_Array
      [] prefix = <<"L", ";">> -> TAG_Long_Array
      [] OTHER -> 0

\* ElemMismatch with the TAG_Int_Array line lost
ElemMismatchNoInt(val_type_id, array_type_id) ==
    \/ val_type_id # TAG_Byte /\ array_type_id = TAG_Byte_Array
    \/ val_type_id # TAG_Long /\ array_type_id = TAG_Long_Array

\* the element type check of _parse_array
ElemMismatch(val_type_id, array_type_id) ==
    \/ val_type_id # TAG_Byte /\ array_type_id = TAG_Byte_Array
    \/ val_type_id # TAG_Int /\ array_type_id = TAG_Int_Array
    \/ val_type_id # TAG_Long /\ array_type_id = TAG_Long_Array

RECURSIVE ArrayLoop(_, _, _, _)

\* one element parsed: the type check, the append, and what follows it
ArrayAppend(s, i, array_type_id, result, r, j) ==
    IF ElemMismatch(r.type, array_type_id) THEN Raise("array type mismatch", i)
    ELSE IF j < Len(s) /\ At(s, j) = "]"
    THEN Ok(Array(array_type_id, Append(result, r.val)), j + 1)
    ELSE IF j < Len(s) /\ At(s, j) = ","
    THEN ArrayLoop(s, j + 1, array_type_id, Append(result, r.val))
    ELSE Raise("array missing comma or bracket", j)

\* one pass of the while loop, from the element's text on
ArrayElement(s, i, array_type_id, result, end_idx, vp) ==
    IF vp = <<>> THEN Raise("invalid array element", i)
    ELSE ArrayAppend(s, i, array_type_id, result, _parse_simple_value(vp),
                     _skip_whitespace(s, end_idx))

ArrayLoop(s, i, array_type_id, result) ==
    IF ~(i < Len(s)) THEN Raise("unclosed array", -1)
    ELSE ArrayElement(s, i, array_type_id, result, ElemEnd(s, i),
                      Strip(Slice(s, i, ElemEnd(s, i))))

_parse_array(s, start_index) ==
    LET i == _skip_whitespace(s, start_index)
        array_type_id == ArrayPrefixType(Slice(s, i, i + 2))
        j == _skip_whitespace(s, i + 2)
    IN  IF array_type_id = 0 THEN Raise("unknown array prefix", i)
        ELSE IF j >= Len(s) \/ At(s, j) = "]"
        THEN Ok(Array(array_type_id, <<>>), j + 1)
        ELSE ArrayLoop(s, j, array_type_id, <<>>)

RECURSIVE _parse_value(_, _)
RECURSIVE _parse_compound(_, _)
RECURSIVE _parse_list(_, _)
RECURSIVE CompoundLoop(_, _, _)
RECURSIVE ListLoop(_, _, _)

IsArrayStart(peek_str) ==
    \/ StartsWith(peek_str, <<"B", ";">>)
    \/ StartsWith(peek_str, <<"I", ";">>)
    \/ StartsWith(peek_str, <<"L", ";">>)

\* the wrapper built from _parse_simple_value's (value, type id)
SimpleNode(r) == Scalar(r.type, r.val)

_parse_value(s, start_index) ==
    LET i == _skip_whitespace(s, start_index)
    IN  IF i >= Len(s) THEN Raise("unexpected end", start_index)
        ELSE LET char == At(s, i)
             IN  IF char = "{" THEN _parse_compound(s, i + 1)
                 ELSE IF char = "["
                 THEN IF IsArrayStart(LStrip(Slice(s, i + 1, Len(s))))
                      THEN _parse_array(s, i + 1)
                      ELSE _parse_list(s, i + 1)
                 ELSE IF char = "'" THEN QuotedLoop(s, i, i + 1, <<>>)
                 ELSE LET end_idx == UnquotedEnd(s, i)
                          vp == Strip(Slice(s, i, end_idx))
                      IN  IF vp = <<>> THEN Raise("invalid value", i)
                          ELSE Ok(SimpleNode(_parse_simple_value(vp)), end_idx)

\* after an entry is stored: a closing brace, a comma, or an error
CompoundNext(s, result, j) ==
    IF j < Len(s) /\ At(s, j) = "}" THEN Ok(result, j + 1)
    ELSE IF j < Len(s) /\ At(s, j) = "," THEN CompoundLoop(s, j + 1, result)
    ELSE Raise("compound missing comma or brace", j)

\* the entry's value parsed: result[key] = value
CompoundEntry(s, result, k, v) ==
    IF ~v.ok THEN v
    ELSE CompoundNext(s, DictSet(result, k, v.node), _skip_whitespace(s, v.next))

CompoundLoop(s, i, result) ==
    IF ~(i < Len(s)) THEN Raise("unclosed compound", -1)
    ELSE LET key_end == KeyEnd(s, i, FALSE)
         IN  IF key_end >= Len(s) \/ At(s, key_end) # ":"
             THEN Raise("no colon after key", i)
             ELSE CompoundEntry(s, result, UnescapeKey(Strip(Slice(s, i, key_end))),
                                _parse_value(s, key_end + 1))

_parse_compound(s, start_index) ==
    LET i == _skip_whitespace(s, start_index)
    IN  IF i >= Len(s) \/ At(s, i) = "}"
        THEN Ok(Compound(<<>>, <<>>), i + 1)
        ELSE CompoundLoop(s, i, Compound(<<>>, <<>>))

\* after an element is appended: a closing bracket, a comma, or an error
ListNext(s, result, j) ==
    IF j < Len(s) /\ At(s, j) = "]" THEN Ok(List(result), j + 1)
    ELSE IF j < Len(s) /\ At(s, j) = "," THEN ListLoop(s, j + 1, result)
    ELSE Raise("list missing comma or bracket", j)

\* the element parsed: result.append(value)
ListElement(s, result, v) ==
    IF ~v.ok THEN v
    ELSE ListNext(s, Append(result, v.node), _skip_whitespace(s, v.next))

ListLoop(s, i, result) ==
    IF ~(i < Len(s)) THEN Raise("unclosed list", -1)
    ELSE ListElement(s, result, _parse_value(s, i))

_parse_list(s, start_index) ==
    LET i == _skip_whitespace(s, start_index)
    IN  IF i >= Len(s) \/ At(s, i) = "]"
        THEN Ok(List(<<>>), i + 1)
        ELSE ListLoop(s, i, <<>>)

\* re.match(r"([a-zA-Z0-9_:]+)\s*:", s): the group is the longest prefix of
\* class characters after which \s*: matches
KeyClass ==
    {LowerCase[k] : k \in 1..26} \cup {UpperCase[k] : k \in 1..26}
        \cup Digits \cup {"_", ":"}

RECURSIVE ClassRun(_, _)
ClassRun(s, n) ==
    IF n < Len(s) /\ At(s, n) \in KeyClass THEN ClassRun(s, n + 1) ELSE n

NamedTagMatch(s) ==
    LET n == ClassRun(s, 0)
        j == _skip_whitespace(s, n)
        backs == {g \in 1..(n - 1) : At(s, g) = ":"}
        g == CHOOSE x \in backs : \A y \in backs : y <= x
    IN  IF n >= 1 /\ j < Len(s) /\ At(s, j) = ":"
        THEN [match |-> TRUE, group |-> Slice(s, 0, n), end |-> j + 1]
        ELSE IF backs # {}
        THEN [match |-> TRUE, group |-> Slice(s, 0, g), end |-> g + 1]
        ELSE [match |-> FALSE, group |-> <<>>, end |-> 0]

\* return {key: value} for the named-tag form
NamedTag(k, v) ==
    IF v.ok THEN Ok(Compound(<<k>>, <<v.node>>), v.next) ELSE v

parse_readable_nbt(text) ==
    LET s == Strip(text)
        match == NamedTagMatch(s)
    IN  IF s = <<>> THEN Ok(Compound(<<>>, <<>>), 0)
        ELSE IF match.match
        THEN NamedTag(Strip(match.group), _parse_value(s, match.end))
        ELSE IF ~StartsWith(s, <<"{">>) \/ s[Len(s)] # "}"
        THEN Raise("invalid top level", -1)
        ELSE _parse_compound(s, 1)

-----------------------------------------------------------------------------
(* str() of a value *)

DigitChar(d) ==
    CASE d = 0 -> "0" [] d = 1 -> "1" [] d = 2 -> "2" [] d = 3 -> "3"
      [] d = 4 -> "4" [] d = 5 -> "5" [] d = 6 -> "6" [] d = 7 -> "7"
      [] d = 8 -> "8" [] d = 9 -> "9"

RECURSIVE NatText(_)
NatText(n) ==
    IF n < 10 THEN <<DigitChar(n)>> ELSE Append(NatText(n \div 10), DigitChar(n % 10))

Abs(n) == IF n < 0 THEN -n ELSE n

IntText(n) == IF n < 0 THEN <<"-">> \o NatText(-n) ELSE NatText(n)

Zeros(n) == [k \in 1..n |-> "0"]

\* repr() of a finite non-zero float m * 10^e: positional notation when the
\* decimal exponent is in -4..15, exponent notation otherwise
FloatText(m, e) ==
    LET D == NatText(Abs(m))
        nd == Len(D)
        adj == e + nd - 1
        sgn == IF m < 0 THEN <<"-">> ELSE <<>>
        ex == NatText(Abs(adj))
        ex2 == IF Len(ex) < 2 THEN <<"0">> \o ex ELSE ex
    IN  IF adj >= -4 /\ adj < 16
        THEN IF e >= 0 THEN sgn \o D \o Zeros(e) \o <<".", "0">>
             ELSE IF adj >= 0
             THEN sgn \o SubSeq(D, 1, nd + e) \o <<".">> \o SubSeq(D, nd + e + 1, nd)
             ELSE sgn \o <<"0", ".">> \o Zeros(-adj - 1) \o D
        ELSE sgn \o <<D[1]>>
                 \o (IF nd > 1 THEN <<".">> \o SubSeq(D, 2, nd) ELSE <<>>)
                 \o <<"e">> \o (IF adj < 0 THEN <<"-">> ELSE <<"+">>) \o ex2

PyStr(v) ==
    CASE v.vk = "int" -> IntText(v.m)
      [] v.vk = "str" -> v.s
      [] v.vk = "none" -> <<"N", "o", "n", "e">>
      [] v.vk = "float" ->
            IF v.s = <<"n", "a", "n">> THEN v.s
            ELSE IF v.s # <<>> THEN (IF v.m < 0 THEN <<"-">> ELSE <<>>) \o v.s
            ELSE IF v.m = 0 THEN <<"0", ".", "0">>
            ELSE FloatText(v.m, v.e)

RECURSIVE Join(_, _)
Join(parts, sep) ==
    IF parts = <<>> THEN <<>>
    ELSE IF Len(parts) = 1 THEN parts[1]
    ELSE parts[1] \o sep \o Join(Tail(parts), sep)

-----------------------------------------------------------------------------
(* 4. api_to_readable *)

T_minecraft_item_lock ==
    <<"m", "i", "n", "e", "c", "r", "a", "f", "t", ":",
      "i", "t", "e", "m", "_", "l", "o", "c", "k">>
T_minecraft_keep_on_death ==
    <<"m", "i", "n", "e", "c", "r", "a", "f", "t", ":",
      "k", "e", "e", "p", "_", "o", "n", "_", "d", "e", "a", "t", "h">>
T_lock_in_inventory ==
    <<"l", "o", "c", "k", "_", "i", "n", "_",
      "i", "n", "v", "e", "n", "t", "o", "r", "y">>
T_lock_in_slot == <<"l", "o", "c", "k", "_", "i", "n", "_", "s", "l", "o", "t">>
T_mode == <<"m", "o", "d", "e">>

\* SPECIAL_KEYS as a set of <<key, mode, readable form>>
SPECIAL_KEYS ==
    { <<T_minecraft_item_lock, T_lock_in_inventory, <<"1", "b">> >>,
      <<T_minecraft_item_lock, T_lock_in_slot, <<"2", "b">> >>,
      <<T_minecraft_keep_on_death, <<>>, <<"1", "b">> >> }

IsSpecialKey(k) == \E e \in SPECIAL_KEYS : e[1] = k

\* value.get('mode', {}) if value is a dict, else value
ModeData(v) ==
    IF v.type = TAG_List THEN v
    ELSE IF v.type = TAG_Compound /\ \E p \in 1..Len(v.keys) : v.keys[p] = T_mode
    THEN v.items[CHOOSE p \in 1..Len(v.keys) : v.keys[p] = T_mode]
    ELSE Compound(<<>>, <<>>)

\* mode_data.get('__value__', '') if mode_data is a dict, else mode_data:
\* a string, a number, or an unhashable list
ModeValue(v) ==
    LET md == ModeData(v)
    IN  IF md.type = TAG_List \/ md.type \in ArrayTypes
        THEN [kind |-> "list", s |-> <<>>]
        ELSE IF md.type = TAG_Compound THEN [kind |-> "str", s |-> <<>>]
        ELSE IF md.val.vk = "str" THEN [kind |-> "str", s |-> md.val.s]
        ELSE [kind |-> "num", s |-> <<>>]

\* escaped_value of the TAG_String branch
EscapeValue(t) ==
    Replace(Replace(Replace(Replace(t,
        <<"\n">>, <<"\\", "n">>),
        <<"\t">>, <<"\\", "t">>),
        <<"\\">>, <<"\\", "\\">>),
        <<"'">>, <<"\\", "'">>)

\* re.search(r"[\s,:{}'\[\]]", t)
NeedsQuotes(t) ==
    \E k \in 1..Len(t) : t[k] \in Whitespace \cup {",", ":", "{", "}", "'", "[", "]"}

\* escaped_key of the compound branch
EscapeKey(k) ==
    Replace(Replace(Replace(Replace(Replace(Replace(Replace(k,
        <<"\\">>, <<"\\", "\\">>),
        <<"'">>, <<"\\", "'">>),
        <<":">>, <<"\\", ":">>),
        <<"{">>, <<"\\", "{">>),
        <<"}">>, <<"\\", "}">>),
        <<"[">>, <<"\\", "[">>),
        <<"]">>, <<"\\", "]">>)

\* the first suffix of TYPE_SUFFIX_MAP with this type id, lower-cased
SuffixOf(t) ==
    CASE t = TAG_Byte -> <<"b">> [] t = TAG_Short -> <<"s">> [] t = TAG_Int -> <<"i">>
      [] t = TAG_Long -> <<"l">> [] t = TAG_Float -> <<"f">> [] t = TAG_Double -> <<"d">>
      [] OTHER -> <<>>

\* the TAG_Array branch: _to_string of the bare list of native values
ArrayText(node) ==
    <<"[">> \o Join([k \in 1..Len(node.elems) |-> PyStr(node.elems[k])], <<",">>) \o <<"]">>

Str(t) == [ok |-> TRUE, text |-> t]
TypeError == [ok |-> FALSE, text |-> <<>>]

RECURSIVE _to_string(_)
RECURSIVE CompoundParts(_, _)
RECURSIVE ListParts(_)

\* the parts list of the compound branch, from entry p on
CompoundParts(data, p) ==
    IF p > Len(data.keys) THEN [ok |-> TRUE, parts |-> <<>>]
    ELSE LET k == data.keys[p]
             v == data.items[p]
             mv == ModeValue(v)
             rest == CompoundParts(data, p + 1)
             sub == _to_string(v)
         IN  IF IsSpecialKey(k) /\ mv.kind = "list"
             THEN [ok |-> FALSE, parts |-> <<>>]
             ELSE IF IsSpecialKey(k) /\ mv.kind = "str"
                     /\ \E e \in SPECIAL_KEYS : e[1] = k /\ e[2] = mv.s
             THEN LET e == CHOOSE x \in SPECIAL_KEYS : x[1] = k /\ x[2] = mv.s
                  IN  IF rest.ok
                      THEN [ok |-> TRUE, parts |-> <<k \o <<":">> \o e[3]>> \o rest.parts]
                      ELSE rest
             ELSE IF ~sub.ok THEN [ok |-> FALSE, parts |-> <<>>]
             ELSE IF rest.ok
             THEN [ok |-> TRUE,
                   parts |-> <<EscapeKey(k) \o <<":">> \o sub.text>> \o rest.parts]
             ELSE rest

ListParts(its) ==
    IF its = <<>> THEN [ok |-> TRUE, parts |-> <<>>]
    ELSE LET sub == _to_string(Head(its))
             rest == ListParts(Tail(its))
         IN  IF sub.ok /\ rest.ok
             THEN [ok |-> TRUE, parts |-> <<sub.text>> \o rest.parts]
             ELSE [ok |-> FALSE, parts |-> <<>>]

_to_string(data) ==
    IF data.type = TAG_String
    THEN IF NeedsQuotes(PyStr(data.val))
         THEN Str(<<"'">> \o EscapeValue(PyStr(data.val)) \o <<"'">>)
         ELSE Str(PyStr(data.val))
    ELSE IF data.type \in ArrayTypes THEN Str(ArrayText(data))
    ELSE IF data.type = TAG_Compound
    THEN LET r == CompoundParts(data, 1)
         IN  IF r.ok THEN Str(<<"{">> \o Join(r.parts, <<",">>) \o <<"}">>) ELSE TypeError
    ELSE IF data.type = TAG_List
    THEN LET r == ListParts(data.items)
         IN  IF r.ok THEN Str(<<"[">> \o Join(r.parts, <<",">>) \o <<"]">>) ELSE TypeError
    ELSE Str(PyStr(data.val) \o SuffixOf(data.type))

api_to_readable(tree) ==
    IF tree.type = TAG_Compound /\ Len(tree.keys) = 1
    THEN LET sub == _to_string(tree.items[1])
         IN  IF sub.ok THEN Str(tree.keys[1] \o <<":">> \o sub.text) ELSE TypeError
    ELSE _to_string(tree)

-----------------------------------------------------------------------------
(* readable_to_api *)

Api(node) == [ok |-> TRUE, node |-> node]
AttributeError == [ok |-> FALSE, node |-> Compound(<<>>, <<>>)]

RECURSIVE readable_to_api(_)
RECURSIVE ApiItems(_)

\* [readable_to_api(item) for item in value_obj]
ApiItems(its) ==
    IF its = <<>> THEN [ok |-> TRUE, items |-> <<>>]
    ELSE LET h == readable_to_api(Head(its))
             rest == ApiItems(Tail(its))
         IN  IF h.ok /\ rest.ok
             THEN [ok |-> TRUE, items |-> <<h.node>> \o rest.items]
             ELSE [ok |-> FALSE, items |-> <<>>]

\* the value stored for one entry of the dict being copied
ApiEntry(value_obj) ==
    IF value_obj.type = TAG_List
    THEN LET r == ApiItems(value_obj.items)
         IN  IF r.ok THEN Api(List(r.items)) ELSE AttributeError
    ELSE readable_to_api(value_obj)

RECURSIVE ApiEntries(_, _)
ApiEntries(node, p) ==
    IF p > Len(node.keys) THEN Api(Compound(<<>>, <<>>))
    ELSE LET rest == ApiEntries(node, p + 1)
             v == ApiEntry(node.items[p])
         IN  IF v.ok /\ rest.ok
             THEN Api(Compound(<<node.keys[p]>> \o rest.node.keys,
                               <<v.node>> \o rest.node.items))
             ELSE AttributeError

\* a list has no .items(); a scalar wrapper is copied field by field; an
\* array wrapper's __value__ list sends each native value back into
\* readable_to_api, which has no .items() either
readable_to_api(readable_nbt) ==
    IF readable_nbt.type = TAG_List THEN AttributeError
    ELSE IF readable_nbt.type = TAG_Compound THEN ApiEntries(readable_nbt, 1)
    ELSE IF readable_nbt.type \in ArrayTypes
    THEN IF readable_nbt.elems = <<>> THEN Api(readable_nbt) ELSE AttributeError
    ELSE Api(readable_nbt)

-----------------------------------------------------------------------------
(* Runs.  Each specification draws the arguments of one entry point from a *)
(* bounded set and then makes the calls the entry point makes.             *)

NotRun == Raise("not run", -1)

IdleSimple == value_part = <<>> /\ simple = [val |-> NoneVal, type |-> 0]
IdleValue == nbt_string = <<>> /\ value = NotRun
IdleTop ==
    /\ key = <<>> /\ value_text = <<>>
    /\ named = NotRun /\ wrapped = NotRun /\ api = AttributeError
IdleTree ==
    api_nbt = Compound(<<>>, <<>>) /\ readable = TypeError /\ reparsed = NotRun

Texts(chars, n) == UNION {[1..k -> chars] : k \in 0..n}

Flatten(parts) == Join(parts, <<>>)

(* _parse_simple_value on every literal up to MaxLen *)

LitChars == {"0", "5", ".", "e", "-", "b", "B", "x", "i", "n", "f"}

Literals == Texts(LitChars, MaxLen)

InitSimple ==
    /\ pc = "simple"
    /\ value_part \in Literals
    /\ simple = [val |-> NoneVal, type |-> 0]
    /\ IdleValue /\ IdleTop /\ IdleTree

ParseSimpleValue ==
    /\ pc = "simple"
    /\ simple' = _parse_simple_value(value_part)
    /\ pc' = "done"
    /\ UNCHANGED <<value_part, nbt_string, value, key, value_text, named,
                   wrapped, api, api_nbt, readable, reparsed>>

NextSimple == ParseSimpleValue

SpecSimple == InitSimple /\ [][NextSimple]_vars

(* _parse_value on bracketed texts: typed arrays and lists *)

ArrayTokens ==
    { <<"B", ";">>, <<"I", ";">>, <<"1", "b">>, <<"2", "i">>, <<",">>, <<"]">>, <<" ">> }

ArrayTexts == { <<"[">> \o Flatten(ts) : ts \in Texts(ArrayTokens, MaxTokens) }

InitArray ==
    /\ pc = "value"
    /\ nbt_string \in ArrayTexts
    /\ value = NotRun
    /\ IdleSimple /\ IdleTop /\ IdleTree

ParseValue ==
    /\ pc = "value"
    /\ value' = _parse_value(nbt_string, 0)
    /\ pc' = "done"
    /\ UNCHANGED <<value_part, simple, nbt_string, key, value_text, named,
                   wrapped, api, api_nbt, readable, reparsed>>

NextArray == ParseValue

SpecArray == InitArray /\ [][NextArray]_vars

(* parse_readable_nbt on both top-level forms of one key and value text,   *)
(* then readable_to_api on the parsed tree as the demo does                *)

TopKeys == { <<"a">>, <<"a", ":", "b">> }

ValueTokens ==
    { <<"1", "b">>, <<"b", ":">>, <<",">>, <<"{">>, <<"}">>, <<"[">>, <<"]">>,
      <<"B", ";">>, <<" ">> }

ValueTexts == { Flatten(ts) : ts \in Texts(ValueTokens, MaxValueTokens) }

NamedText == key \o <<":">> \o value_text
WrappedText == <<"{">> \o key \o <<":">> \o value_text \o <<"}">>

InitTop ==
    /\ pc = "named"
    /\ key \in TopKeys
    /\ value_text \in ValueTexts
    /\ named = NotRun /\ wrapped = NotRun /\ api = AttributeError
    /\ IdleSimple /\ IdleValue /\ IdleTree

ParseNamed ==
    /\ pc = "named"
    /\ named' = parse_readable_nbt(NamedText)
    /\ pc' = "wrapped"
    /\ UNCHANGED <<value_part, simple, nbt_string, value, key, value_text,
                   wrapped, api, api_nbt, readable, reparsed>>

ParseWrapped ==
    /\ pc = "wrapped"
    /\ wrapped' = parse_readable_nbt(WrappedText)
    /\ pc' = "api"
    /\ UNCHANGED <<value_part, simple, nbt_string, value, key, value_text,
                   named, api, api_nbt, readable, reparsed>>

\* the demo calls readable_to_api only when the parse did not raise
ReadableToApi ==
    /\ pc = "api"
    /\ named.ok
    /\ api' = readable_to_api(named.node)
    /\ pc' = "done"
    /\ UNCHANGED <<value_part, simple, nbt_string, value, key, value_text,
                   named, wrapped, api_nbt, readable, reparsed>>

NextTop == ParseNamed \/ ParseWrapped \/ ReadableToApi

SpecTop == InitTop /\ [][NextTop]_vars

(* api_to_readable on a tree, then parse_readable_nbt on its text *)

TreeKeys ==
    { <<"a">>, <<"a", ":", "b">>, <<"\\">>, T_mode,
      T_minecraft_item_lock, T_minecraft_keep_on_death }

Float15 == [vk |-> "float", m |-> 15, e |-> -1, s |-> <<>>]

Leaves ==
    { Scalar(TAG_Byte, IntVal(1)),
      Scalar(TAG_Int, IntVal(-5)),
      Scalar(TAG_Float, Float15),
      Scalar(TAG_String, StrVal(<<"x">>)),
      Scalar(TAG_String, StrVal(<<>>)),
      Scalar(TAG_String, StrVal(<<"1", "2">>)),
      Scalar(TAG_String, StrVal(<<"\n">>)),
      Scalar(TAG_String, StrVal(<<"'">>)),
      Scalar(TAG_String, StrVal(T_lock_in_slot)),
      Array(TAG_Byte_Array, <<IntVal(1), IntVal(2)>>),
      Array(TAG_Long_Array, <<>>) }

\* a second entry for a container: nothing, or one of two leaves
Siblings ==
    { <<>>, <<Scalar(TAG_Byte, IntVal(1))>>, <<Scalar(TAG_String, StrVal(<<"x">>))>> }

SiblingKey == <<"z">>

\* a container holds one node of the level below and an optional sibling
RECURSIVE Nodes(_)
Nodes(d) ==
    IF d = 0 THEN Leaves
    ELSE LET sub == Nodes(d - 1)
         IN  Leaves
             \cup { List(<<>>), Compound(<<>>, <<>>) }
             \cup { List(<<n>> \o sib) : n \in sub, sib \in Siblings }
             \cup { Compound(<<k>> \o (IF sib = <<>> THEN <<>> ELSE <<SiblingKey>>),
                             <<n>> \o sib) :
                    k \in TreeKeys, n \in sub, sib \in Siblings }

\* the dicts handed to api_to_readable: one named tag, or a compound
ApiTrees ==
    { Compound(<<k>>, <<n>>) : k \in {<<"a">>}, n \in Nodes(MaxDepth) }
        \cup { n \in Nodes(MaxDepth) : n.type = TAG_Compound }

InitTree ==
    /\ pc = "readable"
    /\ api_nbt \in ApiTrees
    /\ readable = TypeError /\ reparsed = NotRun
    /\ IdleSimple /\ IdleValue /\ IdleTop

ApiToReadable ==
    /\ pc = "readable"
    /\ readable' = api_to_readable(api_nbt)
    /\ pc' = "reparse"
    /\ UNCHANGED <<value_part, simple, nbt_string, value, key, value_text,
                   named, wrapped, api, api_nbt, reparsed>>

ParseReadableNbt ==
    /\ pc = "reparse"
    /\ readable.ok
    /\ reparsed' = parse_readable_nbt(readable.text)
    /\ pc' = "done"
    /\ UNCHANGED <<value_part, simple, nbt_string, value, key, value_text,
                   named, wrapped, api, api_nbt, readable>>

NextTree == ApiToReadable \/ ParseReadableNbt

SpecTree == InitTree /\ [][NextTree]_vars

-----------------------------------------------------------------------------
(* Properties *)

\* C1 (SpecTree): round trip.  For every valid tree T, api_to_readable(T)
\* returns a text, parse_readable_nbt of that text succeeds, and the parsed
\* tree equals T.
C1_RoundTrip ==
    /\ pc \in {"reparse", "done"} => readable.ok
    /\ pc = "done" => reparsed.ok /\ reparsed.node = api_nbt

\* the representable range and format of each numeric tag
InTagRange(t, v) ==
    CASE t = TAG_Byte -> v.vk = "int" /\ v.m >= -128 /\ v.m <= 127
      [] t = TAG_Short -> v.vk = "int" /\ v.m >= -32768 /\ v.m <= 32767
      [] t = TAG_Int -> v.vk = "int" /\ v.m >= -2147483647 - 1 /\ v.m <= 2147483647
      [] t = TAG_Long -> v.vk = "int"
      [] t \in {TAG_Float, TAG_Double} -> v.vk \in {"int", "float"}
      [] OTHER -> TRUE

\* C2 (SpecSimple): numeric range/format check.  No literal is returned as
\* a numeric scalar whose value lies outside its tag's range or format; in
\* particular a suffixed literal such as 500b or 0.5b is not returned as a
\* Byte.
C2_RangeChecked ==
    pc = "done" => InTagRange(simple.type, simple.val)

\* The layout of a bracketed array text: where the prefix and the first
\* element start, where the first closing bracket is, and the element
\* segments the commas before it delimit.
PrefixStart == _skip_whitespace(nbt_string, 1)
DeclaredType == ArrayPrefixType(Slice(nbt_string, PrefixStart, PrefixStart + 2))
FirstElem == _skip_whitespace(nbt_string, PrefixStart + 2)
CloseAt ==
    LET cs == {c \in FirstElem..(Len(nbt_string) - 1) : At(nbt_string, c) = "]"}
    IN  IF cs = {} THEN Len(nbt_string) ELSE CHOOSE c \in cs : \A d \in cs : c <= d
Commas == {c \in FirstElem..(CloseAt - 1) : At(nbt_string, c) = ","}
SegStarts == IF FirstElem >= CloseAt THEN {} ELSE {FirstElem} \cup {c + 1 : c \in Commas}
SegEnd(st) ==
    LET ends == {c \in Commas : c >= st} \cup {CloseAt}
    IN  CHOOSE c \in ends : \A d \in ends : c <= d
SegLiteral(st) == _parse_simple_value(Strip(Slice(nbt_string, st, SegEnd(st))))
\* the start of the k-th segment
SegStart(k) == CHOOSE st \in SegStarts : Cardinality({x \in SegStarts : x < st}) = k - 1
ElementTag(array_type_id) ==
    CASE array_type_id = TAG_Byte_Array -> TAG_Byte
      [] array_type_id = TAG_Int_Array -> TAG_Int
      [] array_type_id = TAG_Long_Array -> TAG_Long

IsArrayText == IsArrayStart(LStrip(Slice(nbt_string, 1, Len(nbt_string))))

SuffixTag(c) ==
    CASE c = "b" -> TAG_Byte [] c = "s" -> TAG_Short [] c = "i" -> TAG_Int
      [] c = "l" -> TAG_Long [] c = "f" -> TAG_Float [] c = "d" -> TAG_Double

\* the remainder of a suffixed literal read as a number: floating point
\* when it has a point or an exponent marker, an integer otherwise
Remainder(t) == SubSeq(t, 1, Len(t) - 1)
RemainderNumber(t) ==
    IF \E k \in 1..Len(Remainder(t)) : Remainder(t)[k] \in {".", "e", "E"}
    THEN PyFloat(Remainder(t))
    ELSE PyInt(Remainder(t))

SuffixRuleApplies(t) ==
    /\ Lower(t[Len(t)]) \in {"b", "s", "i", "l", "f", "d"}
    /\ RemainderNumber(t).ok

PriorityResult(t) ==
    IF SuffixRuleApplies(t)
    THEN [val |-> RemainderNumber(t).val, type |-> SuffixTag(Lower(t[Len(t)]))]
    ELSE IF PyInt(t).ok THEN [val |-> PyInt(t).val, type |-> TAG_Int]
    ELSE IF PyFloat(t).ok THEN [val |-> PyFloat(t).val, type |-> TAG_Float]
    ELSE [val |-> StrVal(t), type |-> TAG_String]

\* C4 (SpecSimple): priority order of the scalar-literal rule.  For every
\* non-empty literal: the suffix's tag with the remainder's number when the
\* last character is a suffix letter and the remainder parses; otherwise Int
\* when the whole text is an integer; otherwise Float when it is floating
\* point; otherwise the text verbatim as a String.  5b is (5, Byte), 5 is
\* (5, Int), 5.0 is (5.0, Float), 5x is ("5x", String).
C4_PriorityOrder ==
    (pc = "done" /\ value_part # <<>>) =>
        /\ simple = PriorityResult(value_part)
        /\ value_part = <<"5", "b">> => simple = [val |-> IntVal(5), type |-> TAG_Byte]
        /\ value_part = <<"5">> => simple = [val |-> IntVal(5), type |-> TAG_Int]
        /\ value_part = <<"5", ".", "0">> =>
              simple = [val |-> [vk |-> "float", m |-> 5, e |-> 0, s |-> <<>>],
                        type |-> TAG_Float]
        /\ value_part = <<"5", "x">> =>
              simple = [val |-> StrVal(<<"5", "x">>), type |-> TAG_String]

\* C4 witness: 5eb ends in a suffix letter, its remainder 5e fails to parse,
\* and the literal has fallen through to a String
C4_Witness ==
    /\ pc = "done"
    /\ value_part = <<"5", "e", "b">>
    /\ simple = [val |-> StrVal(<<"5", "e", "b">>), type |-> TAG_String]

\* C5 (SpecTop): top-level forms equivalence.  key:value and {key:value}
\* either both fail or both return the single-entry mapping {key: value}.
C5_FormsAgree ==
    pc \in {"api", "done"} =>
        /\ named.ok = wrapped.ok
        /\ named.ok => named.node = wrapped.node /\ named.node.keys = <<key>>

\* C6 (SpecTree): key escaping round trip.  A compound with one entry whose
\* key holds a colon or another reserved character, and whose value is the
\* byte 1, is emitted as a text that parses back to a compound with exactly
\* that key.
ReservedChars == {":", "\\", "{", "}", "[", "]", "'", "\""}
HasReserved(k) == \E p \in 1..Len(k) : k[p] \in ReservedChars
C6_KeyRoundTrip ==
    (/\ pc \in {"reparse", "done"}
     /\ Len(api_nbt.keys) = 1
     /\ api_nbt.items[1].type = TAG_Compound
     /\ Len(api_nbt.items[1].keys) = 1
     /\ HasReserved(api_nbt.items[1].keys[1])
     /\ api_nbt.items[1].items[1] = Scalar(TAG_Byte, IntVal(1))) =>
        /\ readable.ok
        /\ pc = "done" =>
              /\ reparsed.ok
              /\ reparsed.node.items[1].type = TAG_Compound
              /\ reparsed.node.items[1].keys = api_nbt.items[1].keys

\* C7 (SpecTop): complete tree or error.  When parse_readable_nbt returns a
\* tree, nothing but whitespace is left after the position its parser
\* stopped at.
Consumed(text, r) ==
    r.ok => _skip_whitespace(Strip(text), r.next) >= Len(Strip(text))
C7_WholeInput ==
    /\ pc # "named" => Consumed(NamedText, named)
    /\ pc \in {"api", "done"} => Consumed(WrappedText, wrapped)

\* C8 (SpecTop): normalization is a pass-through.  On every tree the parser
\* returned, readable_to_api returns without raising and its result equals
\* the tree.
C8_PassThrough ==
    pc = "done" => api.ok /\ api.node = named.node

\* C9 (SpecTop): unterminated containers are errors.  A returned tree never
\* comes with a next-position past the end of the input, that is, no
\* container is returned whose closer was not consumed.
C9_Terminated ==
    /\ (pc # "named" /\ named.ok) => named.next <= Len(Strip(NamedText))
    /\ (pc \in {"api", "done"} /\ wrapped.ok) => wrapped.next <= Len(Strip(WrappedText))

ArrayPrefix(t) ==
    CASE t = TAG_Byte_Array -> <<"B", ";">>
      [] t = TAG_Int_Array -> <<"I", ";">>
      [] t = TAG_Long_Array -> <<"L", ";">>

\* C10 (SpecTree): typed-array serialization.  A named typed array is
\* emitted as [ + its prefix B;, I; or L; + the comma-joined element values
\* + ], and parses back as a typed array of the same type.
C10_ArrayPrefix ==
    (/\ pc \in {"reparse", "done"}
     /\ Len(api_nbt.keys) = 1
     /\ api_nbt.items[1].type \in ArrayTypes) =>
        /\ readable.ok
        /\ readable.text =
              api_nbt.keys[1] \o <<":", "[">> \o ArrayPrefix(api_nbt.items[1].type)
                 \o Join([k \in 1..Len(api_nbt.items[1].elems) |->
                             PyStr(api_nbt.items[1].elems[k])], <<",">>)
                 \o <<"]">>
        /\ pc = "done" => reparsed.ok /\ reparsed.node.items[1].type = api_nbt.items[1].type

=============================================================================
